---- MODULE Spec2Model ----
(***************************************************************************)
(* LBRYAddressGenerator (src/index.js): key generation, public-key         *)
(* derivation, hash160 / double SHA-256, Base58 encoding, address          *)
(* creation, wallet construction and the structural address validator.     *)
(*                                                                         *)
(* Buffers are sequences of bytes (0..255).  JavaScript strings are        *)
(* sequences of one-character strings.  A call's outcome is a record       *)
(* [kind |-> "return", value |-> v] or [kind |-> "throw", error |-> msg].  *)
(***************************************************************************)
EXTENDS Integers, Sequences, FiniteSets, TLC

VARIABLES
  MAINNET_PREFIX,   \* this.MAINNET_PREFIX
  TESTNET_PREFIX,   \* this.TESTNET_PREFIX
  digestSeed,       \* which member of the digest family Node's crypto is
  pc,               \* "idle", or "draw" inside generatePrivateKey's do-while
  privateKey,       \* generatePrivateKey's local: the last draw
  op,               \* the call in progress, or else the last one that finished
  arg,              \* its arguments
  ret,              \* its outcome
  wallet,           \* the wallet the preceding generateWallet returned, while
                    \* the current call is the one that consumes it
  first             \* the first remembered fromPrivateKey call and its outcome

vars == <<MAINNET_PREFIX, TESTNET_PREFIX, digestSeed, pc, privateKey, op, arg,
          ret, wallet, first>>

----------------------------------------------------------------------------
(* Bounds of the model *)

\* digestSeed ranges over 0..MaxSeed
MaxSeed == 1
\* all-zero buffers of 1..MaxZeros bytes are encoded
MaxZeros == 4
\* two-byte buffers <<ByteSamples, ByteSamples>> are encoded
ByteSamples == {0, 1, 57, 58, 255}

----------------------------------------------------------------------------
(* Sequence helpers *)

Rep(x, n) == [i \in 1..n |-> x]

Return(v) == [kind |-> "return", value |-> v]
Throw(e) == [kind |-> "throw", error |-> e]
InProgress == [kind |-> "pending"]

----------------------------------------------------------------------------
(* Buffer <-> hex text *)

HexDigits == <<"0","1","2","3","4","5","6","7","8","9","a","b","c","d","e","f">>
HexUpper == <<"0","1","2","3","4","5","6","7","8","9","A","B","C","D","E","F">>

\* the value of one hex character, -1 when it is none
HexValues ==
  [c \in {HexDigits[i] : i \in 1..16} \cup {HexUpper[i] : i \in 1..16} |->
     IF \E i \in 1..16 : HexDigits[i] = c
     THEN (CHOOSE i \in 1..16 : HexDigits[i] = c) - 1
     ELSE (CHOOSE i \in 1..16 : HexUpper[i] = c) - 1]

HexVal(c) == IF c \in DOMAIN HexValues THEN HexValues[c] ELSE -1

\* buf.toString('hex'): two lower-case digits per byte
toStringHexUnpadded(buf) ==
  LET digits(b) == IF b < 16 THEN <<HexDigits[b + 1]>>
                   ELSE <<HexDigits[(b \div 16) + 1], HexDigits[(b % 16) + 1]>>
      upto[i \in 0..Len(buf)] == IF i = 0 THEN <<>> ELSE upto[i - 1] \o digits(buf[i])
  IN upto[Len(buf)]

toStringHex(buf) ==
  [i \in 1..(2 * Len(buf)) |->
     IF i % 2 = 1 THEN HexDigits[(buf[(i + 1) \div 2] \div 16) + 1]
     ELSE HexDigits[(buf[i \div 2] % 16) + 1]]

\* Buffer.from(str, 'hex'): floor(length / 2) pairs are read, and decoding
\* stops at the first pair that holds a character that is no hex digit
RECURSIVE HexPairs(_, _, _)
HexPairs(str, i, acc) ==
  IF 2 * i > Len(str) THEN acc
  ELSE LET hi == HexVal(str[2 * i - 1])
           lo == HexVal(str[2 * i])
       IN IF hi < 0 \/ lo < 0 THEN acc
          ELSE HexPairs(str, i + 1, Append(acc, 16 * hi + lo))

BufferFromHex(str) == HexPairs(str, 1, <<>>)

----------------------------------------------------------------------------
(* secp256k1 (the library index.js requires) *)

\* a private key is 32 bytes
KeyLength == 32

\* the order n of the secp256k1 group, big-endian
CurveOrder ==
  <<255,255,255,255, 255,255,255,255, 255,255,255,255, 255,255,255,254,
    186,174,220,230, 175, 72,160, 59, 191,210, 94,140, 208, 54, 65, 65>>

\* a < b for big-endian buffers of one length
BytesLess(a, b) ==
  \E i \in 1..Len(a) : a[i] < b[i] /\ \A j \in 1..(i - 1) : a[j] = b[j]

\* secp256k1.privateKeyVerify: 32 bytes, not zero, below the group order
privateKeyVerify(key) ==
  /\ Len(key) = KeyLength
  /\ \E i \in 1..Len(key) : key[i] # 0
  /\ BytesLess(key, CurveOrder)

\* A digest's mixing of its whole input into one number
RECURSIVE MixFrom(_, _, _)
MixFrom(data, i, acc) ==
  IF i > Len(data) THEN acc
  ELSE MixFrom(data, i + 1, (acc * 31 + data[i] + 1) % 65521)

Mix(data) == MixFrom(data, 1, 7)

\* Node's digests and the curve multiplication are deterministic functions of
\* their input with a fixed output width.  DigestOf is the family that stands
\* for them: member digestSeed, salted per primitive, yields the all-zero
\* digest, the all-ones digest and mixed digests.
DigestOf(salt, data, n) ==
  LET f == (Mix(data) + salt * (digestSeed + 1)) % 65521
  IN IF f % 4 = 0 THEN Rep(0, n)
     ELSE IF f % 4 = 1 THEN Rep(255, n)
     ELSE [i \in 1..n |-> (f + 37 * i) % 256]

\* crypto.createHash('sha256').update(data).digest()
sha256(data) == DigestOf(1, data, 32)

\* crypto.createHash('ripemd160').update(data).digest()
ripemd160(data) == DigestOf(2, data, 20)

\* secp256k1.publicKeyCreate: the 33-byte compressed point
publicKeyCreate(key) == <<2 + (Mix(key) % 2)>> \o DigestOf(3, key, 32)

\* getPublicKey(privateKey)
getPublicKeyUnverified(key) == Return(publicKeyCreate(key))

getPublicKey(key) ==
  IF ~privateKeyVerify(key) THEN Throw("Invalid private key")
  ELSE Return(publicKeyCreate(key))

\* hash160(data)
hash160(data) == ripemd160(sha256(data))

\* doubleSha256(data)
doubleSha256(data) == sha256(sha256(data))

----------------------------------------------------------------------------
(* base58Encode *)

alphabetFlickr ==
  <<"1","2","3","4","5","6","7","8","9",
    "a","b","c","d","e","f","g","h","i","j","k","m","n","o","p","q","r","s",
    "t","u","v","w","x","y","z",
    "A","B","C","D","E","F","G","H","J","K","L","M","N","P","Q","R","S","T",
    "U","V","W","X","Y","Z">>

alphabet ==
  <<"1","2","3","4","5","6","7","8","9",
    "A","B","C","D","E","F","G","H","J","K","L","M","N","P","Q","R","S","T",
    "U","V","W","X","Y","Z",
    "a","b","c","d","e","f","g","h","i","j","k","m","n","o","p","q","r","s",
    "t","u","v","w","x","y","z">>

RECURSIVE StripZeros(_)
StripZeros(b) == IF b # <<>> /\ Head(b) = 0 THEN StripZeros(Tail(b)) ELSE b

\* BigInt('0x' + data.toString('hex')): an unbounded integer, held as its
\* big-endian digits in base 2^24 (three bytes a digit) without leading zero
\* digits, so that 0n is <<>>
BigInt(data) ==
  LET pad == (3 - (Len(data) % 3)) % 3
      padded == Rep(0, pad) \o data
  IN StripZeros([i \in 1..(Len(padded) \div 3) |->
                   padded[3 * i - 2] * 65536 + padded[3 * i - 1] * 256 + padded[3 * i]])

\* num / 58n and num % 58n by long division over the digits of num
RECURSIVE DivMod58(_, _, _, _)
DivMod58(num, i, carry, q) ==
  IF i > Len(num) THEN [quot |-> StripZeros(q), rem |-> carry]
  ELSE LET cur == carry * 16777216 + num[i]
       IN DivMod58(num, i + 1, cur % 58, Append(q, cur \div 58))

\* while (num > 0) { result = alphabet[num % 58n] + result; num = num / 58n }
RECURSIVE DigitLoop(_, _)
DigitLoop(num, result) ==
  IF num = <<>> THEN result
  ELSE LET dm == DivMod58(num, 1, 0, <<>>)
       IN DigitLoop(dm.quot, <<alphabet[dm.rem + 1]>> \o result)

RECURSIVE LeadingZeroLoopEveryZero(_, _, _)
LeadingZeroLoopEveryZero(data, i, result) ==
  IF i > Len(data) THEN result
  ELSE LeadingZeroLoopEveryZero(data, i + 1,
         IF data[i] = 0 THEN <<"1">> \o result ELSE result)

\* for (i = 0; i < data.length && data[i] === 0; i++) result = '1' + result
RECURSIVE LeadingZeroLoop(_, _, _)
LeadingZeroLoop(data, i, result) ==
  IF i <= Len(data) /\ data[i] = 0
  THEN LeadingZeroLoop(data, i + 1, <<"1">> \o result)
  ELSE result

\* BigInt('0x' + hex) is a SyntaxError when hex holds no digit
base58Encode(data) ==
  IF data = <<>> THEN Throw("SyntaxError: Cannot convert 0x to a BigInt")
  ELSE Return(LeadingZeroLoop(data, 1, DigitLoop(BigInt(data), <<>>)))

----------------------------------------------------------------------------
(* createAddress *)

createAddressChecksumOfHash(publicKey, testnet) ==
  LET publicKeyHash == hash160(publicKey)
      prefix == IF testnet THEN TESTNET_PREFIX ELSE MAINNET_PREFIX
      prefixedHash == <<prefix>> \o publicKeyHash
      checksum == SubSeq(doubleSha256(publicKeyHash), 1, 4)
      fullAddress == prefixedHash \o checksum
  IN base58Encode(fullAddress)

createAddress(publicKey, testnet) ==
  LET publicKeyHash == hash160(publicKey)
      prefix == IF testnet THEN TESTNET_PREFIX ELSE MAINNET_PREFIX
      prefixedHash == <<prefix>> \o publicKeyHash
      checksum == SubSeq(doubleSha256(prefixedHash), 1, 4)
      fullAddress == prefixedHash \o checksum
  IN base58Encode(fullAddress)

----------------------------------------------------------------------------
(* generateWallet, fromPrivateKey, validateAddress *)

networkTag(testnet) == IF testnet THEN "testnet" ELSE "mainnet"

\* generateWallet's body after generatePrivateKey has returned key
generateWalletFrom(key, testnet) ==
  LET publicKey == getPublicKey(key)
  IN IF publicKey.kind = "throw" THEN publicKey
     ELSE LET address == createAddress(publicKey.value, testnet)
          IN IF address.kind = "throw" THEN address
             ELSE Return([privateKey |-> toStringHex(key),
                          publicKey |-> toStringHex(publicKey.value),
                          address |-> address.value,
                          network |-> networkTag(testnet)])

\* an input of fromPrivateKey is a string or a Buffer
StringInput(chars) == [type |-> "string", chars |-> chars]
BufferInput(bytes) == [type |-> "Buffer", bytes |-> bytes]

fromPrivateKey(privateKeyHex, testnet) ==
  LET key == IF privateKeyHex.type = "string"
             THEN BufferFromHex(privateKeyHex.chars)
             ELSE privateKeyHex.bytes
  IN IF Len(key) # KeyLength THEN Throw("Private key must be 32 bytes")
     ELSE LET publicKey == getPublicKey(key)
          IN IF publicKey.kind = "throw" THEN publicKey
             ELSE LET address == createAddress(publicKey.value, testnet)
                  IN IF address.kind = "throw" THEN address
                     ELSE Return([privateKey |-> toStringHex(key),
                                  publicKey |-> toStringHex(publicKey.value),
                                  address |-> address.value,
                                  network |-> networkTag(testnet)])

\* the bounds of the length check
MinAddressLength == 26
MaxAddressLength == 35

validateAddressInclusive(address) ==
  IF address.type # "string" THEN FALSE
  ELSE IF Len(address.chars) <= 26 \/ Len(address.chars) >= 35 THEN FALSE
  ELSE IF ~(address.chars[1] \in {"b", "m", "1"}) THEN FALSE
  ELSE TRUE

\* validateAddress(address); a value that is no string (null) throws inside
\* the try block and the catch returns false
validateAddress(address) ==
  IF address.type # "string" THEN FALSE
  ELSE IF Len(address.chars) < MinAddressLength
          \/ Len(address.chars) > MaxAddressLength THEN FALSE
  ELSE IF ~(address.chars[1] \in {"b", "m", "1"}) THEN FALSE
  ELSE TRUE

----------------------------------------------------------------------------
(* The inputs the calls are made with *)

Zero32 == Rep(0, KeyLength)
One32 == Rep(0, KeyLength - 1) \o <<1>>
\* 1234567890abcdef 1234567890abcdef 1234567890abcdef 1234567890abcdef
TestKey ==
  [i \in 1..KeyLength |-> <<18, 52, 86, 120, 144, 171, 205, 239>>[((i - 1) % 8) + 1]]
\* 0a0a...0a: every byte needs its leading hex zero
LowNibbleKey == Rep(10, KeyLength)
OrderMinus1 == SubSeq(CurveOrder, 1, KeyLength - 1) \o <<64>>
AllFF == Rep(255, KeyLength)

ValidKeys == {One32, TestKey, LowNibbleKey, OrderMinus1}
InvalidKeys == {Zero32, CurveOrder, AllFF}

\* what crypto.randomBytes(32) can yield
RandomDraws == ValidKeys \cup InvalidKeys

TestKeyHex == toStringHex(TestKey)
TestKeyHexUpper ==
  [i \in 1..Len(TestKeyHex) |-> HexUpper[HexVal(TestKeyHex[i]) + 1]]
InvalidHexText == <<"i","n","v","a","l","i","d","_","h","e","x">>

BufferKeyInputs ==
  {BufferInput(k) : k \in {LowNibbleKey, OrderMinus1} \cup InvalidKeys}
  \cup {BufferInput(<<>>), BufferInput(<<18, 52>>),
        BufferInput(Rep(1, KeyLength - 1)), BufferInput(Rep(1, KeyLength + 1))}

StringKeyInputs ==
  {StringInput(TestKeyHex),
   StringInput(TestKeyHexUpper),
   StringInput(toStringHex(Zero32)),
   StringInput(toStringHex(CurveOrder)),
   StringInput(<<"1","2","3","4">>),
   StringInput(<<>>),
   StringInput(InvalidHexText),
   StringInput(TestKeyHex \o <<"z","z">>),
   StringInput(TestKeyHex \o <<"a">>),
   StringInput(<<"z","z">> \o TestKeyHex),
   StringInput(SubSeq(TestKeyHex, 1, 10) \o <<"g">> \o SubSeq(TestKeyHex, 11, 64)),
   StringInput(SubSeq(TestKeyHex, 1, 63))}

KeyInputs == BufferKeyInputs \cup StringKeyInputs

\* the calls whose outcome is remembered for a later comparison
RememberedInputs == {StringInput(TestKeyHex), BufferInput(CurveOrder)}

ValidateLengths == {25, 26, 30, 35, 36}
FirstChars == {"b", "m", "n", "1", "a"}
FillChars == {"x", "b"}
NullInput == [type |-> "null"]
InvalidAddress123 ==
  <<"i","n","v","a","l","i","d","_","a","d","d","r","e","s","s","_","1","2","3">>

AddressInputs ==
  {StringInput(<<c>> \o Rep(f, n - 1)) :
     c \in FirstChars, f \in FillChars, n \in ValidateLengths}
  \cup {StringInput(<<>>), StringInput(InvalidAddress123), NullInput}

\* 45 * 58^33, the least 25-byte value whose first base-58 digit is 'n'
FirstN ==
  <<111, 213, 184, 75, 176, 88, 186, 42, 63, 104, 237, 127, 10, 128, 7, 147,
    66, 24, 23, 39, 50, 0, 0, 0, 0>>
LastM == SubSeq(FirstN, 1, 20) \o <<49, 255, 255, 255, 255>>

PayloadInputs ==
  {<<v>> \o Rep(b, 24) : v \in {85, 111}, b \in {0, 255}} \cup {FirstN, LastM}

BufferInputs ==
  {<<>>, <<0, 1, 2, 3, 4>>}
  \cup {Rep(0, n) : n \in 1..MaxZeros}
  \cup {<<a>> : a \in ByteSamples}
  \cup {<<a, b>> : a \in ByteSamples, b \in ByteSamples}
  \cup {<<0, 0, a, b>> : a \in ByteSamples, b \in {0, 255}}
  \cup PayloadInputs

PublicKeyInputs ==
  {publicKeyCreate(k) : k \in {One32, TestKey}} \cup {<<>>, Rep(255, 33)}

NoWallet == [kind |-> "none"]
NoCall == [kind |-> "none"]

----------------------------------------------------------------------------
(* The generator object and the calls made on it *)

Init ==
  /\ MAINNET_PREFIX = 85
  /\ TESTNET_PREFIX = 111
  /\ digestSeed \in 0..MaxSeed
  /\ pc = "idle"
  /\ privateKey = <<>>
  /\ op = "constructor"
  /\ arg = <<>>
  /\ ret = Return(<<>>)
  /\ wallet = NoWallet
  /\ first = NoCall

Fields == <<MAINNET_PREFIX, TESTNET_PREFIX, digestSeed>>
Pending == <<pc, privateKey>>

\* a call finishes: its name, arguments and outcome are recorded
Finish(name, a, r) ==
  /\ op' = name
  /\ arg' = a
  /\ ret' = r

\* lbry.generatePrivateKey() is entered, by itself or from generateWallet
CallGeneratePrivateKey ==
  /\ pc = "idle"
  /\ pc' = "draw"
  /\ Finish("generatePrivateKey", <<>>, InProgress)
  /\ wallet' = NoWallet
  /\ UNCHANGED <<Fields, privateKey, first>>

CallGenerateWallet(testnet) ==
  /\ pc = "idle"
  /\ pc' = "draw"
  /\ Finish("generateWallet", <<testnet>>, InProgress)
  /\ wallet' = NoWallet
  /\ UNCHANGED <<Fields, privateKey, first>>

DrawOnce(bytes) ==
  /\ pc = "draw"
  /\ pc' = "idle"
  /\ privateKey' = <<>>
  /\ IF op = "generatePrivateKey"
     THEN /\ ret' = Return(bytes)
          /\ wallet' = NoWallet
     ELSE LET r == generateWalletFrom(bytes, arg[1])
          IN /\ ret' = r
             /\ wallet' = IF r.kind = "return" THEN r.value ELSE NoWallet
  /\ UNCHANGED <<Fields, op, arg, first>>

\* one turn of do { privateKey = crypto.randomBytes(32) } while (!verify),
\* and, when the draw passes, the rest of the call that asked for the key
Draw(bytes) ==
  /\ pc = "draw"
  /\ IF ~privateKeyVerify(bytes)
     THEN /\ privateKey' = bytes
          /\ UNCHANGED <<Fields, pc, op, arg, ret, wallet, first>>
     ELSE /\ pc' = "idle"
          /\ privateKey' = <<>>
          /\ IF op = "generatePrivateKey"
             THEN /\ ret' = Return(bytes)
                  /\ wallet' = NoWallet
             ELSE LET r == generateWalletFrom(bytes, arg[1])
                  IN /\ ret' = r
                     /\ wallet' = IF r.kind = "return" THEN r.value ELSE NoWallet
          /\ UNCHANGED <<Fields, op, arg, first>>

CallGetPublicKey(key) ==
  /\ pc = "idle"
  /\ Finish("getPublicKey", <<key>>, getPublicKey(key))
  /\ wallet' = NoWallet
  /\ UNCHANGED <<Fields, Pending, first>>

CallBase58Encode(data) ==
  /\ pc = "idle"
  /\ Finish("base58Encode", <<data>>, base58Encode(data))
  /\ wallet' = NoWallet
  /\ UNCHANGED <<Fields, Pending, first>>

CallCreateAddressKeepingPrefix(publicKey, testnet) ==
  /\ pc = "idle"
  /\ Finish("createAddress", <<publicKey, testnet>>, createAddress(publicKey, testnet))
  /\ MAINNET_PREFIX' = IF testnet THEN TESTNET_PREFIX ELSE MAINNET_PREFIX
  /\ wallet' = NoWallet
  /\ UNCHANGED <<TESTNET_PREFIX, digestSeed, Pending, first>>

CallCreateAddress(publicKey, testnet) ==
  /\ pc = "idle"
  /\ Finish("createAddress", <<publicKey, testnet>>, createAddress(publicKey, testnet))
  /\ wallet' = NoWallet
  /\ UNCHANGED <<Fields, Pending, first>>

\* the outcome of the first call with a remembered input is kept
Remember(input, testnet, r) ==
  IF first = NoCall /\ input \in RememberedInputs
  THEN [kind |-> "call", input |-> input, testnet |-> testnet, ret |-> r]
  ELSE first

CallFromPrivateKey(input, testnet) ==
  /\ pc = "idle"
  /\ LET r == fromPrivateKey(input, testnet)
     IN /\ Finish("fromPrivateKey", <<input, testnet>>, r)
        /\ first' = Remember(input, testnet, r)
  /\ wallet' = NoWallet
  /\ UNCHANGED <<Fields, Pending>>

\* lbry.fromPrivateKey(originalWallet.privateKey, testnet)
RecreateWallet(testnet) ==
  /\ pc = "idle"
  /\ wallet # NoWallet
  /\ Finish("fromPrivateKey", <<StringInput(wallet.privateKey), testnet>>,
            fromPrivateKey(StringInput(wallet.privateKey), testnet))
  /\ UNCHANGED <<Fields, Pending, wallet, first>>

CallValidateAddress(address) ==
  /\ pc = "idle"
  /\ Finish("validateAddress", <<address>>, Return(validateAddress(address)))
  /\ wallet' = NoWallet
  /\ UNCHANGED <<Fields, Pending, first>>

\* lbry.validateAddress(wallet.address)
ValidateWalletAddress ==
  /\ pc = "idle"
  /\ wallet # NoWallet
  /\ Finish("validateAddress", <<StringInput(wallet.address)>>,
            Return(validateAddress(StringInput(wallet.address))))
  /\ UNCHANGED <<Fields, Pending, wallet, first>>

Next ==
  \/ CallGeneratePrivateKey
  \/ \E t \in BOOLEAN : CallGenerateWallet(t)
  \/ \E bytes \in RandomDraws : Draw(bytes)
  \/ \E k \in ValidKeys \cup InvalidKeys : CallGetPublicKey(k)
  \/ \E d \in BufferInputs : CallBase58Encode(d)
  \/ \E pk \in PublicKeyInputs, t \in BOOLEAN : CallCreateAddress(pk, t)
  \/ \E i \in KeyInputs, t \in BOOLEAN : CallFromPrivateKey(i, t)
  \/ \E t \in BOOLEAN : RecreateWallet(t)
  \/ \E a \in AddressInputs : CallValidateAddress(a)
  \/ ValidateWalletAddress

Spec == Init /\ [][Next]_vars

\* the random source eventually yields a value that passes privateKeyVerify
\* to a generatePrivateKey call that is drawing
DrawValid ==
  /\ op = "generatePrivateKey"
  /\ \E bytes \in ValidKeys : Draw(bytes)

\* the calls that make, derive from or consume a generated key
KeyNext ==
  \/ CallGeneratePrivateKey
  \/ \E t \in BOOLEAN : CallGenerateWallet(t)
  \/ \E bytes \in RandomDraws : Draw(bytes)
  \/ \E k \in ValidKeys \cup InvalidKeys : CallGetPublicKey(k)
  \/ \E t \in BOOLEAN : RecreateWallet(t)
  \/ ValidateWalletAddress

KeySpec == Init /\ [][KeyNext]_vars /\ WF_vars(DrawValid)

----------------------------------------------------------------------------
(* Reference definitions the claims are stated with *)

AlphabetIndex(c) == (CHOOSE i \in 1..58 : alphabet[i] = c) - 1
InAlphabet(c) == \E i \in 1..58 : alphabet[i] = c

\* bytes * 58 + carry over a fixed width, least significant byte last
RECURSIVE MulAdd58(_, _, _, _)
MulAdd58(bytes, i, carry, acc) ==
  IF i = 0 THEN acc
  ELSE LET cur == bytes[i] * 58 + carry
       IN MulAdd58(bytes, i - 1, cur \div 256, <<cur % 256>> \o acc)

\* the big-endian bytes, without leading zeros, of the number whose base-58
\* digits are text
RECURSIVE DigitsFrom(_, _, _)
DigitsFrom(text, i, bytes) ==
  IF bytes = <<>> \/ i > Len(text) THEN StripZeros(bytes)
  ELSE DigitsFrom(text, i + 1,
                  MulAdd58(bytes, Len(bytes), AlphabetIndex(text[i]), <<>>))

DigitsValue(text) == DigitsFrom(text, 1, Rep(0, Len(text)))

RECURSIVE LeadingCount(_, _)
LeadingCount(seq, x) ==
  IF seq # <<>> /\ Head(seq) = x THEN 1 + LeadingCount(Tail(seq), x) ELSE 0

\* the bytes a Base58 text stands for: one zero byte per leading '1', then
\* the value of the digits
Base58Decode(text) == Rep(0, LeadingCount(text, "1")) \o DigitsValue(text)

\* the base-58 digits of a number held in one machine integer
RECURSIVE IntDigits(_)
IntDigits(n) ==
  IF n = 0 THEN <<>> ELSE IntDigits(n \div 58) \o <<alphabet[(n % 58) + 1]>>

RECURSIVE IntOf(_, _, _)
IntOf(bytes, i, acc) ==
  IF i > Len(bytes) THEN acc ELSE IntOf(bytes, i + 1, acc * 256 + bytes[i])

IsHexText(chars) ==
  Len(chars) % 2 = 0 /\ \A i \in 1..Len(chars) : HexVal(chars[i]) >= 0

\* the key bytes fromPrivateKey works on
DecodedKey(input) ==
  IF input.type = "string" THEN BufferFromHex(input.chars) ELSE input.bytes

Done(name) == pc = "idle" /\ op = name

----------------------------------------------------------------------------
(* The claims *)

\* C1: createAddress(pk, testnet) returns the Base58 text of exactly 25
\* bytes: the version byte (0x55 mainnet, 0x6f testnet), the 20 bytes of
\* hash160(pk), and the first 4 bytes of doubleSha256 of those 21 bytes.
C1_AddressLayout ==
  Done("createAddress") =>
    /\ ret.kind = "return"
    /\ LET P == Base58Decode(ret.value)
       IN /\ Len(P) = 25
          /\ P[1] = (IF arg[2] THEN 111 ELSE 85)
          /\ SubSeq(P, 2, 21) = hash160(arg[1])
          /\ SubSeq(P, 22, 25) = SubSeq(doubleSha256(SubSeq(P, 1, 21)), 1, 4)
          /\ ret = base58Encode(P)

C1_Witness ==
  /\ Done("createAddress")
  /\ Len(arg[1]) = 33
  /\ arg[2] = TRUE
  /\ ret.kind = "return"
  /\ Base58Decode(ret.value)[1] = 111

\* C2: every address built with version byte 0x55 begins with 'b' and every
\* address built with version byte 0x6f begins with 'm' or 'n', whatever the
\* 20 hash bytes and the 4 checksum bytes are.
C2_NetworkPrefix ==
  /\ Done("createAddress") /\ ret.kind = "return" =>
       IF arg[2] THEN ret.value[1] \in {"m", "n"} ELSE ret.value[1] = "b"
  /\ Done("base58Encode") /\ Len(arg[1]) = 25 /\ arg[1][1] = 85 =>
       ret.kind = "return" /\ ret.value[1] = "b"
  /\ Done("base58Encode") /\ Len(arg[1]) = 25 /\ arg[1][1] = 111 =>
       ret.kind = "return" /\ ret.value[1] \in {"m", "n"}
  /\ Done("generateWallet") \/ Done("fromPrivateKey") =>
       (ret.kind = "return" =>
          IF ret.value.network = "testnet" THEN ret.value.address[1] \in {"m", "n"}
          ELSE ret.value.address[1] = "b")

C2_Witness ==
  /\ Done("createAddress")
  /\ arg[2] = TRUE
  /\ ret.kind = "return"
  /\ ret.value[1] = "n"

\* C3: validateAddress accepts the address of every wallet generateWallet
\* returns, on mainnet and on testnet.
C3_GeneratedAddressValid ==
  Done("validateAddress") /\ wallet # NoWallet /\ arg[1] = StringInput(wallet.address)
    => ret = Return(TRUE)

\* C4: fromPrivateKey on a string that is no valid hex string throws an error
\* other than the wrong-length error and returns no wallet.
C4_MalformedHexRejected ==
  Done("fromPrivateKey") /\ arg[1].type = "string" /\ ~IsHexText(arg[1].chars)
    => ret.kind = "throw" /\ ret.error # "Private key must be 32 bytes"

\* C5: fromPrivateKey throws 'Private key must be 32 bytes' whenever the
\* decoded key is not 32 bytes long, and 'Invalid private key' whenever it is
\* 32 bytes long and zero or not below the curve order.
C5_LengthBeforeRange ==
  Done("fromPrivateKey") =>
    LET key == DecodedKey(arg[1])
    IN /\ Len(key) # 32 => ret = Throw("Private key must be 32 bytes")
       /\ Len(key) = 32 /\ ((\A i \in 1..32 : key[i] = 0) \/ ~BytesLess(key, CurveOrder))
            => ret = Throw("Invalid private key")

C5_Witness ==
  /\ Done("fromPrivateKey")
  /\ arg[1] = BufferInput(Zero32)
  /\ ret = Throw("Invalid private key")

\* C6: fromPrivateKey(w.privateKey, t) returns a record equal to the wallet
\* w that generateWallet(t) returned.
C6_RoundTrip ==
  /\ Done("fromPrivateKey")
  /\ wallet # NoWallet
  /\ arg = <<StringInput(wallet.privateKey), wallet.network = "testnet">>
  => ret = Return(wallet)

C6_Witness ==
  /\ Done("fromPrivateKey")
  /\ wallet # NoWallet
  /\ wallet.network = "testnet"
  /\ wallet.privateKey = toStringHex(LowNibbleKey)
  /\ arg = <<StringInput(wallet.privateKey), TRUE>>
  /\ ret = Return(wallet)

\* C7: base58Encode of a non-empty buffer d is one '1' per leading zero byte
\* of d followed by the base-58 digits, most significant first and none when
\* the number is zero, of d read as a big-endian unsigned integer.
C7_Base58Digits ==
  Done("base58Encode") /\ arg[1] # <<>> =>
    /\ ret.kind = "return"
    /\ LET d == arg[1]
           k == LeadingCount(d, 0)
           text == ret.value
           digits == SubSeq(text, k + 1, Len(text))
       IN /\ Len(text) >= k
          /\ \A i \in 1..k : text[i] = "1"
          /\ \A i \in 1..Len(digits) : InAlphabet(digits[i])
          /\ digits # <<>> => digits[1] # "1"
          /\ DigitsValue(digits) = StripZeros(d)
          /\ Len(d) <= 3 => digits = IntDigits(IntOf(d, 1, 0))
          /\ (\A i \in 1..Len(d) : d[i] = 0) => text = Rep("1", Len(d))

C7_Witness ==
  /\ Done("base58Encode")
  /\ arg[1] = <<0, 1, 2, 3, 4>>
  /\ ret = Return(<<"1", "2", "V", "f", "U", "X">>)

C9_Deterministic ==
  /\ MAINNET_PREFIX = 85
  /\ TESTNET_PREFIX = 111
  /\ Done("fromPrivateKey") /\ first # NoCall /\ arg = <<first.input, first.testnet>>
       => ret = first.ret

C9_Witness ==
  /\ Done("fromPrivateKey")
  /\ wallet # NoWallet
  /\ first # NoCall
  /\ first.ret.kind = "return"
  /\ arg = <<first.input, first.testnet>>
  /\ ret = first.ret

\* C10: base58Encode of the empty buffer returns the empty string and raises
\* no error.
C10_EmptyEncodesEmpty ==
  Done("base58Encode") /\ arg[1] = <<>> => ret = Return(<<>>)

\* C11: generatePrivateKey discards every draw that fails privateKeyVerify
\* and draws again; what it returns is a 32-byte key that passes
\* privateKeyVerify; it throws nothing; it returns eventually when the random
\* source eventually yields a valid value; and generateWallet never throws.
C11_RetryUntilValid ==
  /\ [](Done("generatePrivateKey") =>
          /\ ret.kind = "return"
          /\ Len(ret.value) = 32
          /\ (\E i \in 1..32 : ret.value[i] # 0)
          /\ BytesLess(ret.value, CurveOrder))
  /\ [](Done("generateWallet") => ret.kind = "return")
  /\ [][pc = "draw" /\ privateKey' # <<>> /\ privateKey' \in InvalidKeys
          => pc' = "draw" /\ ret' = InProgress]_vars
  /\ (pc = "draw" /\ op = "generatePrivateKey" ~> Done("generatePrivateKey"))

C11_Witness ==
  /\ pc = "draw"
  /\ op = "generateWallet"
  /\ privateKey = CurveOrder
  /\ ret = InProgress

====
